---- MODULE Spec2Model ----
(***************************************************************************)
(* A model of bob (src/bob/core.py): the Target registry, the staleness    *)
(* decision Target.should_build, dependency resolution, the graph builder  *)
(* build_dependency_graph and the multi-threaded executor of build().      *)
(*                                                                         *)
(* Objects: a Target is its index in _registry (object identity).  A name  *)
(* element or dependency is a tagged record: a pathlib.Path                *)
(* [k |-> "path", v |-> p], a str [k |-> "str", v |-> s], or a reference   *)
(* to a Target [k |-> "target", v |-> i].  str(Path(p)) is the string p,   *)
(* so paths and strings share one space of spellings.                      *)
(***************************************************************************)
EXTENDS Integers, Sequences, FiniteSets, TLC

\* ---------------------------------------------------------------- bounds
MaxJobs == 2
MaxTime == 2
NumPaths == 4
MaxDeps == 2
MaxNames == 3
MaxCalls == 3
MaxTargets == 2

Paths == 1..NumPaths

Path(p) == [k |-> "path", v |-> p]
Str(s) == [k |-> "str", v |-> s]
TargetRef(i) == [k |-> "target", v |-> i]
None == [k |-> "none", v |-> 0]

IsTarget(d) == d.k = "target"
IsPath(d) == d.k = "path"

SeqMin(s) == CHOOSE x \in {s[i] : i \in 1..Len(s)} : \A j \in 1..Len(s) : x <= s[j]
SeqMax(s) == CHOOSE x \in {s[i] : i \in 1..Len(s)} : \A j \in 1..Len(s) : x >= s[j]
SetMin(S) == CHOOSE x \in S : \A y \in S : x <= y

\* ------------------------------------------------------------ file system
\* fsys[p] = [mtime, dir]; mtime = 0 means that p.stat() raises (no such file).
stat_ok(f, fsys) == f.k = "path" /\ f.v \in DOMAIN fsys /\ fsys[f.v].mtime > 0

exists(f, fsys) == stat_ok(f, fsys)

is_dir(f, fsys) == stat_ok(f, fsys) /\ fsys[f.v].dir

\* utils.get_timestamps: the st_mtime of every file that exists, in order.
get_timestamps(files, fsys) ==
    LET ret[i \in 0..Len(files)] ==
            IF i = 0 THEN <<>>
            ELSE IF stat_ok(files[i], fsys)
                 THEN Append(ret[i - 1], fsys[files[i].v].mtime)
                 ELSE ret[i - 1]
    IN  ret[Len(files)]

\* --------------------------------------------------------- Target methods
\* The dep_files list of should_build: a Target dependency contributes its
\* name list, a Path dependency itself.
dep_files(self, reg) ==
    LET deps == reg[self].dependencies
        acc[i \in 0..Len(deps)] ==
            IF i = 0 THEN <<>>
            ELSE IF IsTarget(deps[i])
                 THEN acc[i - 1] \o reg[deps[i].v].name
                 ELSE Append(acc[i - 1], deps[i])
    IN  acc[Len(deps)]

depends_on_phony_never(self, reg) == FALSE

depends_on_phony(self, reg) ==
    \E i \in 1..Len(reg[self].dependencies) :
        /\ IsTarget(reg[self].dependencies[i])
        /\ reg[reg[self].dependencies[i].v].phony

is_existing_dir_target(self, reg, fsys) ==
    /\ Len(reg[self].name) = 1
    /\ IsPath(reg[self].name[1])
    /\ is_dir(reg[self].name[1], fsys)
    /\ exists(reg[self].name[1], fsys)

compare_timestamps_strict(timestamps, dep_timestamps) ==
    SeqMin(timestamps) < SeqMax(dep_timestamps)

compare_timestamps(timestamps, dep_timestamps) ==
    SeqMin(timestamps) <= SeqMax(dep_timestamps)

should_build_needs_output(self, reg, fsys) ==
    LET timestamps == get_timestamps(reg[self].name, fsys)
        dep_timestamps == get_timestamps(dep_files(self, reg), fsys)
    IN  IF reg[self].phony THEN TRUE
        ELSE IF is_existing_dir_target(self, reg, fsys) THEN FALSE
        ELSE IF timestamps = <<>> THEN FALSE
        ELSE IF depends_on_phony(self, reg) THEN TRUE
        ELSE IF dep_timestamps = <<>> THEN FALSE
        ELSE compare_timestamps(timestamps, dep_timestamps)

should_build(self, reg, fsys) ==
    LET timestamps == get_timestamps(reg[self].name, fsys)
        dep_timestamps == get_timestamps(dep_files(self, reg), fsys)
    IN  IF reg[self].phony THEN TRUE
        ELSE IF is_existing_dir_target(self, reg, fsys) THEN FALSE
        ELSE IF timestamps = <<>> THEN TRUE
        ELSE IF depends_on_phony(self, reg) THEN TRUE
        ELSE IF dep_timestamps = <<>> THEN FALSE
        ELSE compare_timestamps(timestamps, dep_timestamps)

first_match_latest(dep, reg) ==
    LET M == {i \in 1..Len(reg) :
                \E j \in 1..Len(reg[i].name) : reg[i].name[j] = dep}
    IN  IF M = {} THEN 0 ELSE CHOOSE i \in M : \A j \in M : j <= i

\* The first Target of the registry whose name holds dep (0: none).
first_match(dep, reg) ==
    LET M == {i \in 1..Len(reg) :
                \E j \in 1..Len(reg[i].name) : reg[i].name[j] = dep}
    IN  IF M = {} THEN 0 ELSE SetMin(M)

\* Target.resolve_dependencies: [err, new]; err when a path resolves to self
\* (RuntimeError, self.dependencies is then left as it was).
resolve_dependencies(self, reg) ==
    LET deps == reg[self].dependencies
        r[i \in 0..Len(deps)] ==
            IF i = 0 THEN [err |-> FALSE, new |-> <<>>]
            ELSE LET prev == r[i - 1]
                     dep == deps[i]
                     m == first_match(dep, reg)
                 IN  IF prev.err THEN prev
                     ELSE IF IsTarget(dep) THEN [prev EXCEPT !.new = Append(@, dep)]
                     ELSE IF m = 0 THEN [prev EXCEPT !.new = Append(@, dep)]
                     ELSE IF m = self THEN [prev EXCEPT !.err = TRUE]
                     ELSE [prev EXCEPT !.new = Append(@, TargetRef(m))]
    IN  r[Len(deps)]

\* ----------------------------------------------------------- graph builder
\* The state of build_dependency_graph: graph (dependency -> dependents),
\* in_degree (its keys are its DOMAIN, keys their insertion order, which is
\* the order of in_degree.items()), visited, stack, the registry whose
\* dependency lists resolution rewrites, and the exception raised, if any.
\* chain is the recursion's call chain (the targets of the active walk()
\* frames, outermost first); the code does not keep it.
walk_init(reg) ==
    [graph |-> [i \in 1..Len(reg) |-> <<>>],
     in_degree |-> <<>>,
     keys |-> <<>>,
     visited |-> {},
     stack |-> {},
     reg |-> reg,
     err |-> "none",
     errStack |-> {},
     errTarget |-> 0,
     chain |-> <<>>,
     errChain |-> <<>>]

stack_after_visit_cleared(stack, t) == {}

\* Line 368: stack.remove(t) once the dependencies of t are walked.
stack_after_visit(stack, t) == stack \ {t}

visited_forgotten(visited, t) == visited

\* Line 352: visited.add(t).
visited_add(visited, t) == visited \cup {t}

RECURSIVE walk(_, _), walk_deps(_, _, _)
walk(st, t) ==
    IF st.err # "none" THEN st
    ELSE IF t \in st.stack
    THEN [st EXCEPT !.err = "cyclic", !.errStack = st.stack, !.errTarget = t,
                    !.errChain = st.chain]
    ELSE IF t \in st.visited THEN st
    ELSE LET res == resolve_dependencies(t, st.reg)
             s1 == [st EXCEPT !.visited = visited_add(@, t), !.stack = @ \cup {t},
                              !.chain = Append(@, t)]
         IN  IF res.err THEN [s1 EXCEPT !.err = "self", !.errTarget = t,
                                        !.errChain = s1.chain]
             ELSE LET s2 == [s1 EXCEPT
                               !.reg[t].dependencies = res.new,
                               !.in_degree = IF t \in DOMAIN @ THEN @ ELSE @ @@ (t :> 0),
                               !.keys = IF t \in DOMAIN st.in_degree THEN @ ELSE Append(@, t)]
                      s3 == walk_deps(s2, t, 1)
                  IN  IF s3.err # "none" THEN s3
                      ELSE [s3 EXCEPT !.stack = stack_after_visit(@, t),
                                      !.chain = SubSeq(@, 1, Len(@) - 1)]

walk_deps(st, t, i) ==
    IF st.err # "none" \/ i > Len(st.reg[t].dependencies) THEN st
    ELSE LET dep == st.reg[t].dependencies[i]
         IN  IF IsTarget(dep)
             THEN walk_deps(walk([st EXCEPT !.graph[dep.v] = Append(@, t),
                                            !.in_degree[t] = @ + 1], dep.v),
                            t, i + 1)
             ELSE walk_deps(st, t, i + 1)

\* build_dependency_graph(targets): walks the roots in order.  A root that is
\* still a str (left unresolved by build()) has no resolve_dependencies.
RECURSIVE walk_roots(_, _, _)
walk_roots(st, roots, i) ==
    IF st.err # "none" \/ i > Len(roots) THEN st
    ELSE IF IsTarget(roots[i]) THEN walk_roots(walk(st, roots[i].v), roots, i + 1)
    ELSE [st EXCEPT !.err = "attribute"]

build_dependency_graph(roots, reg) == walk_roots(walk_init(reg), roots, 1)

\* ------------------------------------------------- build(): target selection
\* str(targ) in map(str, treg.name): the first registered Target one of whose
\* name elements is spelled like targ (0: none).
name_match(targ, reg) ==
    LET M == {i \in 1..Len(reg) :
                \E j \in 1..Len(reg[i].name) : reg[i].name[j].v = targ.v}
    IN  IF M = {} THEN 0 ELSE SetMin(M)

\* list.remove(x): drops the first element equal to x.
list_remove(l, x) ==
    LET i == SetMin({j \in 1..Len(l) : l[j] = x})
    IN  SubSeq(l, 1, i - 1) \o SubSeq(l, i + 1, Len(l))

\* The loop of build() over targets_copy (lines 485-497): a name that matches
\* nothing is removed from targets and the loop goes on; at the first name
\* that matches, targets[idx] is assigned and the loop is left.
RECURSIVE match_targets(_, _, _, _)
match_targets(tgts, copy, idx, reg) ==
    IF idx > Len(copy) THEN [err |-> "none", targets |-> tgts]
    ELSE LET m == name_match(copy[idx], reg)
         IN  IF m = 0 THEN match_targets(list_remove(tgts, copy[idx]), copy, idx + 1, reg)
             ELSE IF idx > Len(tgts) THEN [err |-> "IndexError", targets |-> tgts]
             ELSE [err |-> "none", targets |-> [tgts EXCEPT ![idx] = TargetRef(m)]]

all_registered(reg) == [i \in 1..Len(reg) |-> TargetRef(i)]

select_targets_default_all(opts, reg) ==
    IF opts.always_make \/ (Len(opts.targets) = 0 /\ Len(reg) > 0)
    THEN [err |-> "none", targets |-> all_registered(reg)]
    ELSE match_targets(opts.targets, opts.targets, 1, reg)

select_targets(opts, reg) ==
    IF opts.always_make THEN [err |-> "none", targets |-> all_registered(reg)]
    ELSE IF Len(opts.targets) = 0 /\ Len(reg) > 0
    THEN [err |-> "none", targets |-> <<TargetRef(1)>>]
    ELSE match_targets(opts.targets, opts.targets, 1, reg)

\* ------------------------------------------------------------------ state
VARIABLES
    registry,           \* _registry: Seq of [name, recipe, dependencies, phony]
    fs,                 \* the file system: path -> [mtime, dir]
    clock,              \* the time the next written file is stamped with
    options,            \* [targets, always_make, keep_going, dry_run, jobs]
    mainPc,             \* where the thread that called build() is
    mainIdx,            \* index of the thread being started / joined
    result,             \* what build() returned or raised ("none": running)
    targets,            \* build(): the list of roots
    graph,              \* dependency -> Seq of dependents
    in_degree,          \* target -> count; DOMAIN = the dict's keys
    should_be_built,    \* len(in_degree)
    scheduled,          \* set of targets already put on the queue
    queue,              \* queue.Queue: the FIFO of targets
    unfinished_tasks,   \* queue.Queue.unfinished_tasks
    fatal_error_event,  \* threading.Event
    lock,               \* threading.Lock: 0 free, else the holding worker
    wpc,                \* worker -> position in worker()
    wt,                 \* worker -> the target t it dequeued (0: none)
    current,            \* worker -> Recipe.run's local current (None: nothing to restore)
    built,              \* worker -> its local counter built
    wi,                 \* worker -> loop index (dependents loop, drain loop)
    errInfo,            \* what the raised error names: [named, target, chain, message]
    enq,                \* history: target -> number of queue.put(target)
    deq,                \* history: target -> number of times dequeued
    executed,           \* history: targets whose recipe.run() was started
    outcome,            \* history: target -> how its recipe.run() ended ("shown": only displayed)
    notified,           \* history: <<d, t>>: d's finish step decremented t
    processed,          \* history: targets counted by built += 1
    observed,           \* a direct call t.should_build(): [self, value]; self = 0: none
    prev,               \* the script's previous call of build(): "none" (first call) or "ok"
    lists,              \* the list objects of Recipe payloads: address -> Seq of str
    original,           \* a Recipe object: [type, input, raw, cwd]
    copy,               \* the Recipe object original.clone() returned
    cwd,                \* the working directory of the process (Path.cwd())
    last                \* the last call on a Recipe: [n, op, self, raised, returned]

recipeVars == <<lists, original, copy, cwd, last>>

vars == <<registry, fs, clock, options, mainPc, mainIdx, result, targets, graph,
          in_degree, should_be_built, scheduled, queue, unfinished_tasks,
          fatal_error_event, lock, wpc, wt, current, built, wi, errInfo, enq, deq,
          executed, outcome, notified, processed, observed, prev, recipeVars>>

buildVars == <<targets, graph, in_degree, should_be_built, scheduled, queue,
               unfinished_tasks, fatal_error_event, lock, wpc, wt, current, built, wi,
               errInfo, enq, deq, executed, outcome, notified, processed>>

Workers == 1..MaxJobs
Threads == 1..options.jobs
Targets == 1..Len(registry)

\* ----------------------------------------------------------- declarations
\* Target(name, recipe, dependencies, phony) as Target.__init__ stores it.
\* recipe: "none" (None), "proc" (argument vector or raw shell string, run by
\* subprocess.run) or "callable" (in-process action).
Target(name, recipe, dependencies, phony) ==
    [name |-> name, recipe |-> recipe, dependencies |-> dependencies, phony |-> phony]

\* A Target whose Recipe was constructed with cwd=dir; the Recipe of any
\* other Target has the directory the script runs in (lines 66-68).
TargetIn(name, recipe, dependencies, phony, dir) ==
    [name |-> name, recipe |-> recipe, dependencies |-> dependencies, phony |-> phony,
     cwd |-> dir]

File(m) == [mtime |-> m, dir |-> FALSE]
Dir(m) == [mtime |-> m, dir |-> TRUE]
FsOf(files) == [p \in Paths |-> IF p <= Len(files) THEN files[p] ELSE File(0)]
Mtimes(ms) == FsOf([i \in 1..Len(ms) |-> File(ms[i])])

\* Build scripts: what a script declares before it calls build().
\* A chain declared leaf first, dependencies given as Target objects.
RegChain ==
    <<Target(<<Path(1)>>, "proc", <<>>, FALSE),
      Target(<<Path(2)>>, "proc", <<TargetRef(1)>>, FALSE),
      Target(<<Path(3)>>, "callable", <<TargetRef(2)>>, FALSE)>>

\* A diamond whose top is declared first and names its dependencies by path;
\* it also reads a source file nobody builds (path 4 has no Target).
RegDiamond ==
    <<Target(<<Path(1)>>, "proc", <<Path(2), Path(3)>>, FALSE),
      Target(<<Path(2)>>, "proc", <<Path(4), Path(3)>>, FALSE),
      Target(<<Path(3)>>, "callable", <<Path(4)>>, FALSE)>>

\* Two independent branches: target 1 alone; target 2 with two dependents.
RegFan ==
    <<Target(<<Path(1)>>, "proc", <<>>, FALSE),
      Target(<<Path(2)>>, "callable", <<>>, FALSE),
      Target(<<Path(3)>>, "proc", <<TargetRef(2)>>, FALSE),
      Target(<<Path(4)>>, "proc", <<TargetRef(2)>>, FALSE)>>

\* A phony aggregate without recipe over two files, one listed twice, and a
\* phony target with a recipe (examples/c_hello_world.py: "clean", "run").
RegPhony ==
    <<Target(<<Str(9)>>, "none", <<Path(2), Path(1), Path(2)>>, TRUE),
      Target(<<Path(1)>>, "callable", <<>>, FALSE),
      Target(<<Path(2), Path(3)>>, "proc", <<TargetRef(2)>>, FALSE),
      Target(<<Str(8)>>, "proc", <<TargetRef(3)>>, TRUE)>>

\* A depends on B and B depends on A, through path references.
RegCycle ==
    <<Target(<<Path(1)>>, "proc", <<Path(2)>>, FALSE),
      Target(<<Path(2)>>, "proc", <<Path(1)>>, FALSE),
      Target(<<Path(3)>>, "proc", <<>>, FALSE)>>

\* Two independent targets whose in-process recipes are configured with two
\* directories, neither the one the script runs in.
RegDirs ==
    <<TargetIn(<<Path(1)>>, "callable", <<>>, FALSE, Path(2)),
      TargetIn(<<Path(2)>>, "callable", <<>>, FALSE, Path(3))>>

Registries == {RegChain, RegDiamond, RegFan, RegPhony, RegCycle, RegDirs}

\* The files on disk when build() is called: nothing built yet, or every path
\* there (up to date for a chain declared leaf first, stale for a script
\* declared top first).
FileSystems == {Mtimes(<<0, 0, 0, 0>>), Mtimes(<<1, 2, 3, 1>>)}

\* The positional target names build() is given: none, or one name.
Requests == {<<>>, <<Str(3)>>, <<Str(7)>>}

OptionSets ==
    {o \in [targets : Requests, always_make : BOOLEAN, keep_going : BOOLEAN,
            dry_run : BOOLEAN, jobs : 1..MaxJobs] :
        o.always_make => o.targets = <<>>}

MaxMtime(f) == SeqMax([p \in Paths |-> f[p].mtime])

\* No Recipe object yet / no call made yet.
NoRecipe == [type |-> "none", input |-> [k |-> "none", v |-> 0], raw |-> FALSE, cwd |-> 0]
NoCall == [n |-> 0, op |-> "none", self |-> "none", raised |-> "none", returned |-> "none"]

\* The directory the script is started in.
StartDir == Path(1)

\* self.cwd of the Recipe of target t.
recipe_cwd(reg, t) == IF "cwd" \in DOMAIN reg[t] THEN reg[t].cwd ELSE StartDir

\* Lines 93-98: what an in-process recipe keeps in current, and the working
\* directory it leaves the process in, before it calls the action.
run_enter(self_cwd, curdir) ==
    IF curdir # self_cwd
    THEN [current |-> curdir, cwd |-> self_cwd]
    ELSE [current |-> None, cwd |-> curdir]

\* Lines 102-103: the working directory after the action returned.
run_leave(saved, curdir) == IF saved # None THEN saved ELSE curdir

InitRecipeVars ==
    /\ lists = <<>>
    /\ original = NoRecipe
    /\ copy = NoRecipe
    /\ cwd = StartDir
    /\ last = NoCall

InitBuild ==
    /\ mainPc = "start"
    /\ mainIdx = 0
    /\ result = "none"
    /\ targets = <<>>
    /\ graph = <<>>
    /\ in_degree = <<>>
    /\ should_be_built = 0
    /\ scheduled = {}
    /\ queue = <<>>
    /\ unfinished_tasks = 0
    /\ fatal_error_event = FALSE
    /\ lock = 0
    /\ wpc = [w \in Workers |-> "idle"]
    /\ wt = [w \in Workers |-> 0]
    /\ current = [w \in Workers |-> None]
    /\ built = [w \in Workers |-> 0]
    /\ wi = [w \in Workers |-> 0]
    /\ errInfo = [named |-> {}, target |-> 0, chain |-> <<>>, message |-> <<>>]
    /\ enq = [t \in Targets |-> 0]
    /\ deq = [t \in Targets |-> 0]
    /\ executed = {}
    /\ outcome = [t \in Targets |-> "none"]
    /\ notified = {}
    /\ processed = {}
    /\ observed = [self |-> 0, value |-> FALSE]

Init ==
    /\ registry \in Registries
    /\ fs \in FileSystems
    /\ clock = MaxMtime(fs) + 1
    /\ options \in OptionSets
    /\ prev = "none"
    /\ InitRecipeVars
    /\ InitBuild

\* ------------------------------------------------------ build(): main thread
\* Lines 480-503: the roots; "No valid target" returns False.
MSelectTargets ==
    /\ mainPc = "start"
    /\ LET sel == select_targets(options, registry)
       IN  IF sel.err # "none"
           THEN /\ mainPc' = "raised"
                /\ result' = sel.err
                /\ UNCHANGED targets
           ELSE IF Len(sel.targets) = 0
           THEN /\ mainPc' = "returned"
                /\ result' = "False"
                /\ UNCHANGED targets
           ELSE /\ mainPc' = "graph"
                /\ targets' = sel.targets
                /\ UNCHANGED result
    /\ UNCHANGED <<registry, fs, clock, options, mainIdx, graph, in_degree,
                   should_be_built, scheduled, queue, unfinished_tasks,
                   fatal_error_event, lock, wpc, wt, current, built, wi, errInfo, enq, deq,
                   executed, outcome, notified, processed, observed, prev, recipeVars>>

initial_queue_first_only(keys, indeg) ==
    SubSeq(SelectSeq(keys, LAMBDA t : indeg[t] = 0), 1, 1)

\* Lines 513-516: the targets whose in-degree is 0, in in_degree.items() order.
initial_queue(keys, indeg) == SelectSeq(keys, LAMBDA t : indeg[t] = 0)

SeqToSet(q) == {q[i] : i \in 1..Len(q)}

\* Lines 344-345 and 268-270: the targets the error message spells out (the
\* members of stack and the re-entered target, or the self-dependent target)
\* and, for reference, the call chain at the raise.
\* message is the sequence of targets the text spells out: the members of
\* stack as the iteration over the set yields them, then the re-entered
\* target.
error_message(g, order) ==
    [named |-> g.errStack \cup {g.errTarget}, target |-> g.errTarget, chain |-> g.errChain,
     message |-> Append(order, g.errTarget)]

\* for x in stack: stack is a set of objects hashed by their address, so the
\* iteration yields its members in any order.
iteration_orders(S) ==
    {q \in [1..Cardinality(S) -> S] : \A i, j \in 1..Cardinality(S) : q[i] = q[j] => i = j}

\* Lines 505-516: the graph, then the queue and the shared state of the
\* workers.  An exception of build_dependency_graph leaves build().
MBuildGraph ==
    /\ mainPc = "graph"
    /\ LET g == build_dependency_graph(targets, registry)
           q == initial_queue(g.keys, g.in_degree)
       IN  IF g.err # "none"
           THEN /\ mainPc' = "raised"
                /\ result' = g.err
                /\ \E order \in iteration_orders(g.errStack) :
                       errInfo' = error_message(g, order)
                /\ registry' = g.reg
                /\ UNCHANGED <<mainIdx, graph, in_degree, should_be_built, scheduled,
                               queue, unfinished_tasks, enq>>
           ELSE /\ mainPc' = "spawn"
                /\ mainIdx' = 1
                /\ registry' = g.reg
                /\ graph' = g.graph
                /\ in_degree' = g.in_degree
                /\ should_be_built' = Len(g.keys)
                /\ queue' = q
                /\ unfinished_tasks' = Len(q)
                /\ scheduled' = SeqToSet(q)
                /\ enq' = [t \in Targets |-> IF t \in SeqToSet(q) THEN 1 ELSE 0]
                /\ UNCHANGED <<result, errInfo>>
    /\ UNCHANGED <<fs, clock, options, targets, fatal_error_event, lock, wpc, wt, current,
                   built, wi, deq, executed, outcome, notified, processed, observed, prev, recipeVars>>

\* Lines 576-579: the threads are started one after the other.
MStartThread ==
    /\ mainPc = "spawn"
    /\ wpc' = [wpc EXCEPT ![mainIdx] = "loop"]
    /\ IF mainIdx = options.jobs
       THEN mainPc' = "queue_join" /\ mainIdx' = 0
       ELSE mainPc' = "spawn" /\ mainIdx' = mainIdx + 1
    /\ UNCHANGED <<registry, fs, clock, options, result, targets, graph, in_degree,
                   should_be_built, scheduled, queue, unfinished_tasks,
                   fatal_error_event, lock, wt, current, built, wi, errInfo, enq, deq,
                   executed, outcome, notified, processed, observed, prev, recipeVars>>

\* Line 580: queue.join() returns once unfinished_tasks is 0.
MQueueJoin ==
    /\ mainPc = "queue_join"
    /\ unfinished_tasks = 0
    /\ mainPc' = "thread_join"
    /\ mainIdx' = 1
    /\ UNCHANGED <<registry, fs, clock, options, result, targets, graph, in_degree,
                   should_be_built, scheduled, queue, unfinished_tasks,
                   fatal_error_event, lock, wpc, wt, current, built, wi, errInfo, enq, deq,
                   executed, outcome, notified, processed, observed, prev, recipeVars>>

\* Lines 581-589: join every thread, then report.
MThreadJoin ==
    /\ mainPc = "thread_join"
    /\ wpc[mainIdx] \in {"done", "crashed"}
    /\ IF mainIdx = options.jobs
       THEN /\ mainPc' = "returned"
            /\ result' = IF fatal_error_event THEN "False" ELSE "True"
            /\ UNCHANGED mainIdx
       ELSE /\ mainIdx' = mainIdx + 1
            /\ UNCHANGED <<mainPc, result>>
    /\ UNCHANGED <<registry, fs, clock, options, targets, graph, in_degree,
                   should_be_built, scheduled, queue, unfinished_tasks,
                   fatal_error_event, lock, wpc, wt, current, built, wi, errInfo, enq, deq,
                   executed, outcome, notified, processed, observed, prev, recipeVars>>

\* A script that builds for real and stops at the first failure calls build()
\* a second time, right after a call that returned True: the same _registry
\* (its dependencies resolved by the first call), the same options, the files
\* as the first call left them.
MBuildAgain ==
    /\ mainPc = "returned"
    /\ result = "True"
    /\ ~options.keep_going
    /\ ~options.dry_run
    /\ prev = "none"
    /\ prev' = "ok"
    /\ UNCHANGED <<registry, fs, clock, options, observed, recipeVars>>
    /\ mainPc' = "start"
    /\ mainIdx' = 0
    /\ result' = "none"
    /\ targets' = <<>>
    /\ graph' = <<>>
    /\ in_degree' = <<>>
    /\ should_be_built' = 0
    /\ scheduled' = {}
    /\ queue' = <<>>
    /\ unfinished_tasks' = 0
    /\ fatal_error_event' = FALSE
    /\ lock' = 0
    /\ wpc' = [w \in Workers |-> "idle"]
    /\ wt' = [w \in Workers |-> 0]
    /\ current' = [w \in Workers |-> None]
    /\ built' = [w \in Workers |-> 0]
    /\ wi' = [w \in Workers |-> 0]
    /\ errInfo' = [named |-> {}, target |-> 0, chain |-> <<>>, message |-> <<>>]
    /\ enq' = [t \in Targets |-> 0]
    /\ deq' = [t \in Targets |-> 0]
    /\ executed' = {}
    /\ outcome' = [t \in Targets |-> "none"]
    /\ notified' = {}
    /\ processed' = {}

\* ------------------------------------------------------ build(): worker()
\* worker() returns, or an exception ends the thread: its locals are gone.
thread_ends(w, how) ==
    /\ wpc' = [wpc EXCEPT ![w] = how]
    /\ wt' = [wt EXCEPT ![w] = 0]
    /\ current' = [current EXCEPT ![w] = None]
    /\ built' = [built EXCEPT ![w] = 0]
    /\ wi' = [wi EXCEPT ![w] = 0]

\* Lines 520-528: the top of the loop.
WLoop(w) ==
    /\ wpc[w] = "loop"
    /\ IF fatal_error_event \/ built[w] = should_be_built
       THEN thread_ends(w, "done")
       ELSE /\ wpc' = [wpc EXCEPT ![w] = "get"]
            /\ UNCHANGED <<wt, current, built, wi>>
    /\ UNCHANGED <<registry, fs, clock, options, mainPc, mainIdx, result, targets, graph,
                   in_degree, should_be_built, scheduled, queue, unfinished_tasks,
                   fatal_error_event, lock, errInfo, enq, deq, executed, outcome, notified, processed,
                   observed, prev, recipeVars>>

runs_recipe_unconditionally(t, reg, fsys, opts) ==
    /\ reg[t].recipe # "none"
    /\ ~opts.dry_run

runs_recipe_despite_dry_run(t, reg, fsys, opts) ==
    /\ reg[t].recipe # "none"
    /\ should_build(t, reg, fsys)

\* Lines 535-540: whether the recipe of t is run.
runs_recipe(t, reg, fsys, opts) ==
    /\ reg[t].recipe # "none"
    /\ should_build(t, reg, fsys)
    /\ ~opts.dry_run

\* Lines 535-538: whether the command of t is only displayed.
shows_command(t, reg, fsys, opts) ==
    /\ reg[t].recipe # "none"
    /\ should_build(t, reg, fsys)
    /\ opts.dry_run

\* Lines 531-540: queue.get(timeout=1) hands out the head of the queue; the
\* worker decides whether to run the recipe of t (should_build reads the
\* file system, which no step of another thread between the get and the
\* decision can change in a way a step before the get could not).  An
\* in-process recipe that is run enters Recipe.run (lines 93-98) in the same
\* step: it reads the working directory of the process and changes it.
WGet(w) ==
    /\ wpc[w] = "get"
    /\ queue # <<>>
    /\ wt' = [wt EXCEPT ![w] = Head(queue)]
    /\ queue' = Tail(queue)
    /\ deq' = [deq EXCEPT ![Head(queue)] = @ + 1]
    /\ IF runs_recipe(Head(queue), registry, fs, options)
       THEN /\ wpc' = [wpc EXCEPT ![w] = "run"]
            /\ executed' = executed \cup {Head(queue)}
            /\ UNCHANGED outcome
            /\ IF registry[Head(queue)].recipe = "callable"
               THEN LET e == run_enter(recipe_cwd(registry, Head(queue)), cwd)
                    IN  /\ current' = [current EXCEPT ![w] = e.current]
                        /\ cwd' = e.cwd
               ELSE UNCHANGED <<current, cwd>>
       ELSE /\ wpc' = [wpc EXCEPT ![w] = "finish"]
            /\ outcome' = IF shows_command(Head(queue), registry, fs, options)
                           THEN [outcome EXCEPT ![Head(queue)] = "shown"]
                           ELSE outcome
            /\ UNCHANGED <<executed, current, cwd>>
    /\ UNCHANGED <<registry, fs, clock, options, mainPc, mainIdx, result, targets, graph,
                   in_degree, should_be_built, scheduled, unfinished_tasks,
                   fatal_error_event, lock, built, wi, errInfo, enq, notified,
                   processed, observed, prev, lists, original, copy, last>>

\* Lines 532-533: the queue stayed empty for the timeout; Empty; return.
WGetEmpty(w) ==
    /\ wpc[w] = "get"
    /\ queue = <<>>
    /\ thread_ends(w, "done")
    /\ UNCHANGED <<registry, fs, clock, options, mainPc, mainIdx, result, targets, graph,
                   in_degree, should_be_built, scheduled, queue, unfinished_tasks,
                   fatal_error_event, lock, errInfo, enq, deq, executed, outcome, notified,
                   processed, observed, prev, recipeVars>>

written_nothing(t, reg, fsys, now) == fsys

\* The files a recipe that succeeds leaves behind: it writes the outputs of
\* its target (a phony target has none).
written(t, reg, fsys, now) ==
    [p \in DOMAIN fsys |->
        IF ~reg[t].phony /\ \E j \in 1..Len(reg[t].name) : reg[t].name[j] = Path(p)
        THEN [fsys[p] EXCEPT !.mtime = now]
        ELSE fsys[p]]

\* Lines 542-545: recipe.run() returns normally having done its work; an
\* in-process recipe changes back to the directory it kept (lines 102-103).
WRunOk(w) ==
    /\ wpc[w] = "run"
    /\ outcome' = [outcome EXCEPT ![wt[w]] = "ok"]
    /\ fs' = written(wt[w], registry, fs, clock)
    /\ clock' = clock + 1
    /\ wpc' = [wpc EXCEPT ![w] = "finish"]
    /\ cwd' = IF registry[wt[w]].recipe = "callable" THEN run_leave(current[w], cwd) ELSE cwd
    /\ current' = [current EXCEPT ![w] = None]
    /\ UNCHANGED <<registry, options, mainPc, mainIdx, result, targets, graph, in_degree,
                   should_be_built, scheduled, queue, unfinished_tasks, fatal_error_event,
                   lock, wt, built, wi, errInfo, enq, deq, executed, notified, processed, observed, prev,
                   lists, original, copy, last>>

check_never(opts) == FALSE

\* Whether a nonzero exit of the child process raises CalledProcessError:
\* subprocess.run(check=not keep_going).
check(opts) == ~opts.keep_going

\* Lines 542-551: the child process exits with a nonzero code.
WRunExit(w) ==
    /\ wpc[w] = "run"
    /\ registry[wt[w]].recipe = "proc"
    /\ outcome' = [outcome EXCEPT ![wt[w]] = "exit"]
    /\ IF check(options)
       THEN /\ fatal_error_event' = TRUE
            /\ wpc' = [wpc EXCEPT ![w] = "drain_lock"]
       ELSE /\ wpc' = [wpc EXCEPT ![w] = "finish"]
            /\ UNCHANGED fatal_error_event
    /\ UNCHANGED <<registry, fs, clock, options, mainPc, mainIdx, result, targets, graph,
                   in_degree, should_be_built, scheduled, queue, unfinished_tasks, lock,
                   wt, current, built, wi, errInfo, enq, deq, executed, notified, processed, observed, prev, recipeVars>>

\* Lines 552-557: any other exception of recipe.run(): the in-process action
\* raises, and Recipe.run is left without changing the directory back.  (The program of a process recipe is taken to be installed: a
\* process recipe runs and exits, with code zero or not.)
WRunFault(w) ==
    /\ wpc[w] = "run"
    /\ registry[wt[w]].recipe = "callable"
    /\ outcome' = [outcome EXCEPT ![wt[w]] = "fault"]
    /\ fatal_error_event' = TRUE
    /\ wpc' = [wpc EXCEPT ![w] = "drain_lock"]
    /\ current' = [current EXCEPT ![w] = None]
    /\ UNCHANGED <<registry, fs, clock, options, mainPc, mainIdx, result, targets, graph,
                   in_degree, should_be_built, scheduled, queue, unfinished_tasks, lock,
                   wt, built, wi, errInfo, enq, deq, executed, notified, processed, observed, prev, recipeVars>>

\* Lines 561-562: with lock: built += 1.
WFinish(w) ==
    /\ wpc[w] = "finish"
    /\ lock = 0
    /\ lock' = w
    /\ built' = [built EXCEPT ![w] = @ + 1]
    /\ processed' = processed \cup {wt[w]}
    /\ wi' = [wi EXCEPT ![w] = 1]
    /\ wpc' = [wpc EXCEPT ![w] = "deps"]
    /\ UNCHANGED <<registry, fs, clock, options, mainPc, mainIdx, result, targets, graph,
                   in_degree, should_be_built, scheduled, queue, unfinished_tasks,
                   fatal_error_event, wt, current, errInfo, enq, deq, executed, outcome, notified, observed, prev, recipeVars>>

becomes_ready_early(indeg, dependent, sched) == indeg[dependent] <= 1 /\ dependent \notin sched

\* Line 565: whether the dependent is put on the queue.
becomes_ready(indeg, dependent, sched) == indeg[dependent] = 0 /\ dependent \notin sched

\* Lines 563-567: one iteration of the loop over graph[t], lock held.
WDependent(w) ==
    /\ wpc[w] = "deps"
    /\ wi[w] <= Len(graph[wt[w]])
    /\ LET dependent == graph[wt[w]][wi[w]]
           indeg == [in_degree EXCEPT ![dependent] = @ - 1]
       IN  /\ in_degree' = indeg
           /\ notified' = notified \cup {<<wt[w], dependent>>}
           /\ IF becomes_ready(indeg, dependent, scheduled)
              THEN /\ queue' = Append(queue, dependent)
                   /\ unfinished_tasks' = unfinished_tasks + 1
                   /\ scheduled' = scheduled \cup {dependent}
                   /\ enq' = [enq EXCEPT ![dependent] = @ + 1]
              ELSE UNCHANGED <<queue, unfinished_tasks, scheduled, enq>>
    /\ wi' = [wi EXCEPT ![w] = @ + 1]
    /\ UNCHANGED <<registry, fs, clock, options, mainPc, mainIdx, result, targets, graph,
                   should_be_built, fatal_error_event, lock, wpc, wt, current, built, errInfo, deq,
                   executed, outcome, processed, observed, prev, recipeVars>>

\* The end of the with block: the lock is released.
WUnlock(w) ==
    /\ wpc[w] = "deps"
    /\ wi[w] > Len(graph[wt[w]])
    /\ lock' = 0
    /\ wi' = [wi EXCEPT ![w] = 0]
    /\ wpc' = [wpc EXCEPT ![w] = "task_done"]
    /\ UNCHANGED <<registry, fs, clock, options, mainPc, mainIdx, result, targets, graph,
                   in_degree, should_be_built, scheduled, queue, unfinished_tasks,
                   fatal_error_event, wt, current, built, errInfo, enq, deq, executed, outcome,
                   notified, processed, observed, prev, recipeVars>>

\* Line 568: queue.task_done().
WTaskDone(w) ==
    /\ wpc[w] = "task_done"
    /\ unfinished_tasks > 0
    /\ unfinished_tasks' = unfinished_tasks - 1
    /\ wt' = [wt EXCEPT ![w] = 0]
    /\ wpc' = [wpc EXCEPT ![w] = "loop"]
    /\ UNCHANGED current
    /\ UNCHANGED <<registry, fs, clock, options, mainPc, mainIdx, result, targets, graph,
                   in_degree, should_be_built, scheduled, queue, fatal_error_event, lock,
                   built, wi, errInfo, enq, deq, executed, outcome, notified, processed, observed, prev, recipeVars>>

\* Line 568 when no task is unfinished: ValueError("task_done() called too
\* many times") ends the thread.
WTaskDoneError(w) ==
    /\ wpc[w] = "task_done"
    /\ unfinished_tasks = 0
    /\ thread_ends(w, "crashed")
    /\ UNCHANGED <<registry, fs, clock, options, mainPc, mainIdx, result, targets, graph,
                   in_degree, should_be_built, scheduled, queue, unfinished_tasks,
                   fatal_error_event, lock, errInfo, enq, deq, executed, outcome, notified, processed,
                   observed, prev, recipeVars>>

\* Lines 570-574: after the break; range(queue.unfinished_tasks) is
\* evaluated once, with the lock held.
WDrainLock(w) ==
    /\ wpc[w] = "drain_lock"
    /\ lock = 0
    /\ lock' = w
    /\ wi' = [wi EXCEPT ![w] = unfinished_tasks]
    /\ wpc' = [wpc EXCEPT ![w] = "drain"]
    /\ UNCHANGED <<registry, fs, clock, options, mainPc, mainIdx, result, targets, graph,
                   in_degree, should_be_built, scheduled, queue, unfinished_tasks,
                   fatal_error_event, wt, current, built, errInfo, enq, deq, executed, outcome,
                   notified, processed, observed, prev, recipeVars>>

\* Line 575: one queue.task_done() of the drain.
WDrainStep(w) ==
    /\ wpc[w] = "drain"
    /\ wi[w] > 0
    /\ unfinished_tasks > 0
    /\ unfinished_tasks' = unfinished_tasks - 1
    /\ wi' = [wi EXCEPT ![w] = @ - 1]
    /\ UNCHANGED <<registry, fs, clock, options, mainPc, mainIdx, result, targets, graph,
                   in_degree, should_be_built, scheduled, queue, fatal_error_event, lock,
                   wpc, wt, current, built, errInfo, enq, deq, executed, outcome, notified, processed, observed, prev, recipeVars>>

\* Line 575 when no task is unfinished any more: ValueError leaves the with
\* block (the lock is released) and ends the thread.
WDrainError(w) ==
    /\ wpc[w] = "drain"
    /\ wi[w] > 0
    /\ unfinished_tasks = 0
    /\ lock' = 0
    /\ thread_ends(w, "crashed")
    /\ UNCHANGED <<registry, fs, clock, options, mainPc, mainIdx, result, targets, graph,
                   in_degree, should_be_built, scheduled, queue, unfinished_tasks,
                   fatal_error_event, errInfo, enq, deq, executed, outcome, notified, processed,
                   observed, prev, recipeVars>>

\* The drain is over: the lock is released and worker() returns.
WDrainEnd(w) ==
    /\ wpc[w] = "drain"
    /\ wi[w] = 0
    /\ lock' = 0
    /\ thread_ends(w, "done")
    /\ UNCHANGED <<registry, fs, clock, options, mainPc, mainIdx, result, targets, graph,
                   in_degree, should_be_built, scheduled, queue, unfinished_tasks,
                   fatal_error_event, errInfo, enq, deq, executed, outcome, notified, processed,
                   observed, prev, recipeVars>>

Main ==
    \/ MSelectTargets \/ MBuildGraph \/ MStartThread \/ MQueueJoin \/ MThreadJoin
    \/ MBuildAgain

Worker(w) ==
    \/ WLoop(w) \/ WGet(w) \/ WGetEmpty(w)
    \/ WRunOk(w) \/ WRunExit(w) \/ WRunFault(w)
    \/ WFinish(w) \/ WDependent(w) \/ WUnlock(w)
    \/ WTaskDone(w) \/ WTaskDoneError(w)
    \/ WDrainLock(w) \/ WDrainStep(w) \/ WDrainError(w) \/ WDrainEnd(w)

Next ==
    \/ MSelectTargets \/ MBuildGraph \/ MStartThread \/ MQueueJoin \/ MThreadJoin
    \/ MBuildAgain
    \/ \E w \in Workers :
        \/ WLoop(w) \/ WGet(w) \/ WGetEmpty(w)
        \/ WRunOk(w) \/ WRunExit(w) \/ WRunFault(w)
        \/ WFinish(w) \/ WDependent(w) \/ WUnlock(w)
        \/ WTaskDone(w) \/ WTaskDoneError(w)
        \/ WDrainLock(w) \/ WDrainStep(w) \/ WDrainError(w) \/ WDrainEnd(w)

Spec == Init /\ [][Next]_vars

\* ---------------------------------------- build() up to the thread start
\* Every script of three file targets whose dependencies are lists of at
\* most MaxDeps path references to the three outputs: all dependency shapes,
\* acyclic, cyclic and self-dependent.
RECURSIVE SeqsUpTo(_, _)
SeqsUpTo(S, n) ==
    IF n = 0 THEN {<<>>}
    ELSE LET shorter == SeqsUpTo(S, n - 1)
         IN  shorter \cup {Append(q, x) : q \in shorter, x \in S}

DepLists == SeqsUpTo({Path(1), Path(2), Path(3)}, MaxDeps)

NoRepeat(q) == \A i, j \in 1..Len(q) : q[i] = q[j] => i = j

\* Scripts of three file targets with every choice of path dependencies; the
\* first target may list a dependency more than once.
GraphRegistries ==
    {<<Target(<<Path(1)>>, "proc", d1, FALSE),
       Target(<<Path(2)>>, "proc", d2, FALSE),
       Target(<<Path(3)>>, "proc", d3, FALSE)>> :
        d1 \in DepLists,
        d2 \in {q \in DepLists : NoRepeat(q)},
        d3 \in {q \in DepLists : NoRepeat(q)}}

GraphOptionSets ==
    {o \in [targets : {<<>>, <<Str(1)>>, <<Str(2)>>, <<Str(3)>>}, always_make : BOOLEAN,
            keep_going : {FALSE}, dry_run : {FALSE}, jobs : {1}] :
        o.always_make => o.targets = <<>>}

InitGraph ==
    /\ registry \in GraphRegistries
    /\ fs = Mtimes(<<>>)
    /\ clock = 1
    /\ options \in GraphOptionSets
    /\ prev = "none"
    /\ InitRecipeVars
    /\ InitBuild

NextGraph == MSelectTargets \/ MBuildGraph

SpecGraph == InitGraph /\ [][NextGraph]_vars

\* ------------------------------------------------ requests of several names
\* build(targets=[...]) with up to MaxNames names, in every order and with
\* repetitions: "1" and "3" name registered targets, "7" names none.
NameLists == SeqsUpTo({Str(1), Str(3), Str(7)}, MaxNames)

InitSelect ==
    /\ registry \in {RegChain, RegFan}
    /\ fs = Mtimes(<<>>)
    /\ clock = 1
    /\ options \in [targets : NameLists, always_make : {FALSE}, keep_going : {FALSE},
                     dry_run : {FALSE}, jobs : {1}]
    /\ prev = "none"
    /\ InitRecipeVars
    /\ InitBuild

SpecSelect == InitSelect /\ [][NextGraph]_vars

\* ------------------------------------------- direct calls of should_build
\* A script of two targets: target 1 is a phony target over a source file or
\* a file target, target 2 has one or two outputs and depends on paths and on
\* target 1.
StaleRegistries ==
    {<<Target(n1, "proc", IF ph THEN <<Path(4)>> ELSE <<>>, ph),
       Target(n2, "proc", d2, FALSE)>> :
        ph \in BOOLEAN,
        n1 \in {<<Path(3)>>, <<Str(9)>>},
        n2 \in {<<Path(1)>>, <<Path(1), Path(2)>>},
        d2 \in SeqsUpTo({TargetRef(1), Path(3), Path(4)}, MaxDeps)}

ValidRegistry(reg) ==
    \A i \in 1..Len(reg) :
        IF reg[i].phony THEN Len(reg[i].name) = 1 /\ reg[i].name[1].k = "str"
        ELSE Len(reg[i].name) >= 1 /\ \A j \in 1..Len(reg[i].name) : IsPath(reg[i].name[j])

StaleFileSystems ==
    {[p \in Paths |-> [mtime |-> m[p], dir |-> (p = 1 /\ d)]] :
        m \in [Paths -> 0..MaxTime], d \in BOOLEAN}

InitStale ==
    /\ registry \in {r \in StaleRegistries : ValidRegistry(r)}
    /\ fs \in StaleFileSystems
    /\ clock = MaxTime + 1
    /\ options = [targets |-> <<>>, always_make |-> FALSE, keep_going |-> FALSE,
                  dry_run |-> FALSE, jobs |-> 1]
    /\ prev = "none"
    /\ InitRecipeVars
    /\ InitBuild

\* t.should_build() called by the script itself.
CallShouldBuild(t) ==
    /\ observed.self = 0
    /\ observed' = [self |-> t, value |-> should_build(t, registry, fs)]
    /\ UNCHANGED <<registry, fs, clock, options, mainPc, mainIdx, result, prev, recipeVars>>
    /\ UNCHANGED buildVars

NextStale == \E t \in Targets : CallShouldBuild(t)

SpecStale == InitStale /\ [][NextStale]_vars

\* ------------------------------------------------------------------ Recipe
\* A str is [pre, v]: the text pre followed by the spelling v.  str(x) of a
\* str is x itself, of a Path its spelling.
str_of(x) == IF "pre" \in DOMAIN x THEN x ELSE [pre |-> "", v |-> x.v]

\* f"-I{str(a)}" and the like.
prefixed(pre, x) == [pre |-> pre, v |-> str_of(x).v]

\* A new list object holding content: its address and the heap with it.
new_list(heap, content) == [at |-> Len(heap) + 1, lists |-> Append(heap, content)]

\* Recipe.__init__(input, raw, cwd): [raised, self, lists].
Recipe_init(input, raw, dir, heap, curdir) ==
    LET made(type, inp, h) ==
            [raised |-> "none",
             self |-> [type |-> type, input |-> inp, raw |-> raw,
                       cwd |-> IF dir = None THEN curdir ELSE dir],
             lists |-> h]
        failed == [raised |-> "TypeError", self |-> NoRecipe, lists |-> heap]
    IN  IF raw
        THEN IF input.k = "str"
             THEN made("RawRecipe", [k |-> "str", v |-> input.v], heap)
             ELSE failed
        ELSE IF input.k = "callable"
        THEN made("CallableRecipe", input, heap)
        ELSE IF input.k = "list"
        THEN LET l == new_list(heap, [i \in 1..Len(input.v) |-> str_of(input.v[i])])
             IN  made("ListRecipe", [k |-> "list", v |-> l.at], l.lists)
        ELSE IF input.k \in {"str", "path"}
        THEN LET l == new_list(heap, <<str_of(input)>>)
             IN  made("DefaultRecipe", [k |-> "list", v |-> l.at], l.lists)
        ELSE failed

\* copy.deepcopy(self.input): a list is copied, a str and a function are
\* returned as they are.
deepcopy(inp, heap) == IF inp.k = "list" THEN [k |-> "list", v |-> heap[inp.v]] ELSE inp

\* Recipe.clone(): Recipe(deepcopy(self.input), raw=self.raw).
clone(self, heap, curdir) == Recipe_init(deepcopy(self.input, heap), self.raw, None, heap, curdir)

\* Lines 122-126 (and the same test in the other builder methods).
can_add(type) == type \in {"DefaultRecipe", "ListRecipe"}

appended_plain(op, args) == [i \in 1..Len(args) |-> str_of(args[i])]

\* What each builder method appends for its arguments.
appended(op, args) ==
    [i \in 1..Len(args) |->
        CASE op = "add" -> str_of(args[i])
          [] op = "add_include" -> prefixed("-I", args[i])
          [] op = "add_libinclude" -> prefixed("-L", args[i])
          [] op = "add_link" -> prefixed("-l", args[i])
          [] op = "add_output" -> prefixed("-o", args[i])]

Objects == {"original", "copy"}
Object(which) == IF which = "original" THEN original ELSE copy

\* The argument lists the script passes to the builder methods.
ArgLists == {<<Path(1)>>, <<Str(2), Path(1)>>}

\* A builder method called on an existing Recipe: RuntimeError, or the list
\* is extended in place and self is returned.
builder(which, op, args) ==
    /\ Object(which).type # "none"
    /\ last.n < MaxCalls
    /\ IF can_add(Object(which).type)
       THEN /\ lists' = [lists EXCEPT ![Object(which).input.v] = @ \o appended(op, args)]
            /\ last' = [n |-> last.n + 1, op |-> op, self |-> which, raised |-> "none",
                        returned |-> which]
       ELSE /\ last' = [n |-> last.n + 1, op |-> op, self |-> which,
                        raised |-> "RuntimeError", returned |-> "none"]
            /\ UNCHANGED lists
    /\ UNCHANGED <<original, copy, cwd>>
    /\ UNCHANGED <<registry, fs, clock, options, mainPc, mainIdx, result, observed, prev>>
    /\ UNCHANGED buildVars

RAdd(which, args) == builder(which, "add", args)
RAddInclude(which, args) == builder(which, "add_include", args)
RAddLibinclude(which, args) == builder(which, "add_libinclude", args)
RAddLink(which, args) == builder(which, "add_link", args)
RAddOutput(which, output) == builder(which, "add_output", <<output>>)

\* What the script constructs a Recipe from: a function, a list, a program
\* name, a program path, something else.
RecipeInputs ==
    {[k |-> "callable", v |-> 1], [k |-> "list", v |-> <<Str(0), Path(1)>>],
     [k |-> "str", v |-> 0], [k |-> "path", v |-> 1], [k |-> "int", v |-> 5]}

\* original = Recipe(input, raw, cwd).
RNew(input, raw, dir) ==
    /\ original.type = "none"
    /\ last.n < MaxCalls
    /\ LET r == Recipe_init(input, raw, dir, lists, cwd)
       IN  /\ original' = r.self
           /\ lists' = r.lists
           /\ last' = [n |-> last.n + 1, op |-> "new", self |-> "original",
                       raised |-> r.raised,
                       returned |-> IF r.raised = "none" THEN "original" ELSE "none"]
    /\ UNCHANGED <<copy, cwd>>
    /\ UNCHANGED <<registry, fs, clock, options, mainPc, mainIdx, result, observed, prev>>
    /\ UNCHANGED buildVars

\* copy = original.clone().
RClone ==
    /\ original.type # "none"
    /\ copy.type = "none"
    /\ last.n < MaxCalls
    /\ LET r == clone(original, lists, cwd)
       IN  /\ copy' = r.self
           /\ lists' = r.lists
           /\ last' = [n |-> last.n + 1, op |-> "clone", self |-> "original",
                       raised |-> r.raised,
                       returned |-> IF r.raised = "none" THEN "copy" ELSE "none"]
    /\ UNCHANGED <<original, cwd>>
    /\ UNCHANGED <<registry, fs, clock, options, mainPc, mainIdx, result, observed, prev>>
    /\ UNCHANGED buildVars

\* Lines 93-103: the working directory after run() of a callable recipe whose
\* action returns (TRUE) or raises (FALSE); the action itself stays where it is.
cwd_after_callable(self, curdir, returns) ==
    IF curdir # self.cwd /\ ~returns THEN self.cwd ELSE curdir

\* Recipe.run(): the action or the child process ends well or raises.  A
\* child process is given cwd=self.cwd and leaves the process where it is.
RRun(which, returns) ==
    /\ Object(which).type # "none"
    /\ last.n < MaxCalls
    /\ cwd' = IF Object(which).type = "CallableRecipe"
              THEN cwd_after_callable(Object(which), cwd, returns)
              ELSE cwd
    /\ last' = [n |-> last.n + 1, op |-> "run", self |-> which,
                raised |-> IF returns THEN "none" ELSE "Exception", returned |-> "none"]
    /\ UNCHANGED <<lists, original, copy>>
    /\ UNCHANGED <<registry, fs, clock, options, mainPc, mainIdx, result, observed, prev>>
    /\ UNCHANGED buildVars

InitRecipe ==
    /\ registry = <<>>
    /\ fs = Mtimes(<<>>)
    /\ clock = 1
    /\ options = [targets |-> <<>>, always_make |-> FALSE, keep_going |-> FALSE,
                  dry_run |-> FALSE, jobs |-> 1]
    /\ prev = "none"
    /\ InitRecipeVars
    /\ InitBuild

NextRecipe ==
    \/ \E input \in RecipeInputs, raw \in BOOLEAN, dir \in {None, Path(2)} : RNew(input, raw, dir)
    \/ RClone
    \/ \E which \in Objects :
        \/ \E args \in ArgLists :
            \/ RAdd(which, args) \/ RAddInclude(which, args)
            \/ RAddLibinclude(which, args) \/ RAddLink(which, args)
        \/ \E output \in {Path(1), Str(2)} : RAddOutput(which, output)
        \/ \E returns \in BOOLEAN : RRun(which, returns)

SpecRecipe == InitRecipe /\ [][NextRecipe]_vars

\* ------------------------------------------------------ Target.__init__
\* The empty str, and what iterating over a value yields: the elements of a
\* list, the characters of a str (each one a str).
EmptyStr == [k |-> "str", v |-> -1]
List(q) == [k |-> "list", v |-> q]
Number(i) == [k |-> "int", v |-> i]
is_iterable(x) == x.k \in {"list", "str"}
items(x) ==
    IF x.k = "list" THEN x.v
    ELSE IF x = EmptyStr THEN <<>>
    ELSE <<x>>

\* all([isinstance(x, kinds) for x in q])
all_isinstance(q, kinds) == \A i \in 1..Len(q) : q[i].k \in kinds

\* Target.__init__: [raised, self]. recipe is "none", "proc", "callable" or
\* "invalid" (an object that is neither None nor a Recipe).
Target_init(name, recipe, dependencies, phony) ==
    LET failed == [raised |-> "TypeError", self |-> Target(<<>>, "none", <<>>, FALSE)]
        names ==
            IF phony
            THEN IF name.k # "str" THEN None ELSE List(<<name>>)
            ELSE IF name.k = "path" THEN List(<<name>>)
            ELSE IF is_iterable(name) /\ all_isinstance(items(name), {"path"})
            THEN List(items(name))
            ELSE None
        deps ==
            IF dependencies = None THEN List(<<>>)
            ELSE IF dependencies.k \in {"target", "path"} THEN List(<<dependencies>>)
            ELSE IF is_iterable(dependencies)
                    /\ all_isinstance(items(dependencies), {"target", "path"})
            THEN List(items(dependencies))
            ELSE None
    IN  IF names = None THEN failed
        ELSE IF deps = None THEN failed
        ELSE IF recipe = "invalid" THEN failed
        ELSE [raised |-> "none", self |-> Target(names.v, recipe, deps.v, phony)]

\* The script constructs a Target: _registry.append(self) is the last
\* statement of the constructor.
TNew(name, recipe, dependencies, phony) ==
    /\ Len(registry) < MaxTargets
    /\ last.n < MaxCalls
    /\ LET r == Target_init(name, recipe, dependencies, phony)
       IN  /\ registry' = IF r.raised = "none" THEN Append(registry, r.self) ELSE registry
           /\ last' = [n |-> last.n + 1, op |-> "Target", self |-> "none",
                       raised |-> r.raised, returned |-> "none"]
    /\ UNCHANGED <<fs, clock, options, mainPc, mainIdx, result, observed, prev>>
    /\ UNCHANGED <<lists, original, copy, cwd>>
    /\ UNCHANGED buildVars

TargetNames ==
    {Str(1), EmptyStr, Path(1), List(<<>>), List(<<Path(1), Path(2)>>),
     List(<<Path(1), Str(1)>>), Number(5)}
TargetDependencies == {None, Path(3), List(<<Path(3), Str(1)>>)}
TargetRecipes == {"none", "proc", "invalid"}

NextTarget ==
    \E name \in TargetNames, recipe \in TargetRecipes,
       dependencies \in TargetDependencies, phony \in BOOLEAN :
        TNew(name, recipe, dependencies, phony)

SpecTarget == InitRecipe /\ [][NextTarget]_vars

\* ------------------------------------------- Target.resolve_dependencies
\* The script calls T.resolve_dependencies(): self.dependencies is assigned
\* at the end, unless the RuntimeError of a self-dependency left the method.
TResolve(t) ==
    /\ last.n < MaxCalls
    /\ LET r == resolve_dependencies(t, registry)
       IN  /\ registry' = IF r.err THEN registry
                          ELSE [registry EXCEPT ![t].dependencies = r.new]
           /\ last' = [n |-> last.n + 1, op |-> "resolve", self |-> ToString(t),
                       raised |-> IF r.err THEN "RuntimeError" ELSE "none",
                       returned |-> "none"]
    /\ UNCHANGED <<fs, clock, options, mainPc, mainIdx, result, observed, prev>>
    /\ UNCHANGED <<lists, original, copy, cwd>>
    /\ UNCHANGED buildVars

\* Scripts of three targets: the first with one or two outputs, the second
\* with an output the first may also have, the third phony; dependencies are
\* paths of outputs, a path of no target and Target objects.
ResolveDepLists == SeqsUpTo({Path(1), Path(2), Path(4), TargetRef(3)}, MaxDeps)

ResolveRegistries ==
    {<<Target(n1, "proc", d1, FALSE),
       Target(<<Path(2)>>, "proc", d2, FALSE),
       Target(<<Str(3)>>, "none", <<>>, TRUE)>> :
        n1 \in {<<Path(1)>>, <<Path(1), Path(2)>>},
        d1 \in ResolveDepLists,
        d2 \in {q \in ResolveDepLists : Len(q) <= 1}}

InitResolve ==
    /\ registry \in ResolveRegistries
    /\ fs = Mtimes(<<>>)
    /\ clock = 1
    /\ options = [targets |-> <<>>, always_make |-> FALSE, keep_going |-> FALSE,
                  dry_run |-> FALSE, jobs |-> 1]
    /\ prev = "none"
    /\ InitRecipeVars
    /\ InitBuild

NextResolve == \E t \in Targets : TResolve(t)

SpecResolve == InitResolve /\ [][NextResolve]_vars

\* ------------------------------------------ build_dependency_graph(roots)
\* The script calls build_dependency_graph(roots) itself, with any list of
\* its Targets as roots.
TBuildDependencyGraph(roots) ==
    /\ last.n = 0
    /\ LET g == build_dependency_graph(roots, registry)
       IN  /\ targets' = roots
           /\ registry' = g.reg
           /\ graph' = g.graph
           /\ in_degree' = g.in_degree
           /\ \E order \in iteration_orders(g.errStack) :
                  errInfo' = IF g.err = "none" THEN errInfo ELSE error_message(g, order)
           /\ last' = [n |-> last.n + 1, op |-> "build_dependency_graph", self |-> "none",
                       raised |-> g.err, returned |-> "none"]
    /\ UNCHANGED <<fs, clock, options, mainPc, mainIdx, result, observed, prev>>
    /\ UNCHANGED <<lists, original, copy, cwd>>
    /\ UNCHANGED <<should_be_built, scheduled, queue, unfinished_tasks, fatal_error_event,
                   lock, wpc, wt, current, built, wi, enq, deq, executed, outcome, notified, processed>>

\* Scripts of three file targets whose dependencies are paths of the other
\* outputs and a path of no target; the first may list a path twice.
WalkRegistries ==
    {<<Target(<<Path(1)>>, "proc", d1, FALSE),
       Target(<<Path(2)>>, "proc", d2, FALSE),
       Target(<<Path(3)>>, "proc", d3, FALSE)>> :
        d1 \in SeqsUpTo({Path(2), Path(3), Path(4)}, MaxDeps),
        d2 \in {q \in SeqsUpTo({Path(1), Path(3), Path(4)}, MaxDeps) : NoRepeat(q)},
        d3 \in {<<>>, <<Path(1)>>, <<Path(4)>>}}

RootLists == SeqsUpTo({TargetRef(1), TargetRef(2), TargetRef(3)}, MaxDeps)

InitWalk ==
    /\ registry \in WalkRegistries
    /\ fs = Mtimes(<<>>)
    /\ clock = 1
    /\ options = [targets |-> <<>>, always_make |-> FALSE, keep_going |-> FALSE,
                  dry_run |-> FALSE, jobs |-> 1]
    /\ prev = "none"
    /\ InitRecipeVars
    /\ InitBuild

NextWalk == \E roots \in RootLists : TBuildDependencyGraph(roots)

SpecWalk == InitWalk /\ [][NextWalk]_vars

\* ----------------------------------------------------------------- claims
\* The resolved Target dependencies of t.
TargetDeps(t) ==
    {registry[t].dependencies[i].v :
        i \in {j \in 1..Len(registry[t].dependencies) : IsTarget(registry[t].dependencies[j])}}

Failed == {t \in Targets : outcome[t] \in {"exit", "fault"}}

Terminal == ~ENABLED Next

\* C2: when a recipe has failed fatally, build() does not end up blocked: a
\* state in which no thread can take a step any more is one in which build()
\* has returned False.
C2_FatalFailureReturnsFalse ==
    (fatal_error_event /\ Terminal) => (mainPc = "returned" /\ result = "False")

\* The targets build() has to process: those reachable from the roots along
\* dependencies, a path reference standing for the first registered Target
\* that has the path among its names.
DependenciesOf(t) ==
    {d \in Targets :
        \E i \in 1..Len(registry[t].dependencies) :
            LET dep == registry[t].dependencies[i]
            IN  \/ IsTarget(dep) /\ dep.v = d
                \/ IsPath(dep) /\ first_match(dep, registry) = d}

RECURSIVE Closure(_)
Closure(S) ==
    LET N == S \cup UNION {DependenciesOf(t) : t \in S}
    IN  IF N = S THEN S ELSE Closure(N)

Roots == {targets[i].v : i \in {j \in 1..Len(targets) : IsTarget(targets[j])}}

Reachable == Closure(Roots)

\* A measure of the work the threads still have in front of them.  It falls
\* with every step of build(), so that no run of build() goes on for ever: a
\* run in which every thread that can step does step ends in a Terminal state.
WorkerRank(w) ==
    CASE wpc[w] = "idle" -> 30
      [] wpc[w] = "run" -> 23
      [] wpc[w] = "finish" -> 22
      [] wpc[w] = "drain_lock" -> 22
      [] wpc[w] = "deps" -> 6 + Len(graph[wt[w]]) + 1 - wi[w]
      [] wpc[w] = "drain" -> 6 + wi[w]
      [] wpc[w] = "task_done" -> 4
      [] wpc[w] = "loop" -> 3
      [] wpc[w] = "get" -> 2
      [] OTHER -> 0

MainRank ==
    CASE mainPc = "start" -> 60
      [] mainPc = "graph" -> 59
      [] mainPc = "spawn" -> 40 + options.jobs - mainIdx
      [] mainPc = "queue_join" -> 30
      [] mainPc = "thread_join" -> 10 + options.jobs - mainIdx
      [] OTHER -> 0

RECURSIVE Sum(_, _)
Sum(f, S) == IF S = {} THEN 0 ELSE LET x == CHOOSE y \in S : TRUE IN f[x] + Sum(f, S \ {x})

Rank ==
    MainRank + Sum([w \in Workers |-> WorkerRank(w)], Workers)
    + 40 * (Len(registry) - Sum(deq, Targets))
    + (IF prev = "none" THEN 1000 ELSE 0)

\* Every step of build() takes the run closer to its end.
EveryStepProgresses == [][Rank' < Rank]_vars

\* C3: in a run where no recipe fails, every target reachable from the roots
\* is processed and build() returns True: as long as build() has not returned
\* True with everything processed, some thread has a step to take, so that
\* under fair scheduling the run, which cannot go on for ever
\* (EveryStepProgresses), gets there.
C3_BuildCompletes ==
    (should_be_built > 0 /\ Failed = {})
    => \/ mainPc = "returned" /\ result = "True" /\ processed = Reachable
       \/ ENABLED Next

C3_Witness ==
    /\ mainPc = "returned"
    /\ result = "True"
    /\ Failed = {}
    /\ Cardinality(processed) >= 3
    /\ options.jobs > 1

\* C4: once the cancellation flag is set, no recipe execution is started.
C4_NoStartAfterCancel == [][fatal_error_event => executed' = executed]_vars

\* C5: under keep_going, when a recipe exits with a nonzero code (and nothing
\* else goes wrong), every target of the graph is still processed and build()
\* returns False.
C5_KeepGoingReportsFailure ==
    (/\ mainPc = "returned"
     /\ options.keep_going
     /\ Failed # {}
     /\ \A t \in Failed : outcome[t] = "exit")
    => (result = "False" /\ processed = DOMAIN in_degree)

\* C6: under keep_going no recipe failure, a nonzero exit or an execution
\* fault, sets the cancellation flag, and the failed target is processed.
C6_KeepGoingNeverCancels ==
    options.keep_going =>
        /\ ~fatal_error_event
        /\ mainPc = "returned" => Failed \subseteq processed

\* C7: with always_make, a build that ran to its end has executed the recipe
\* of every registered target that has one.
C7_AlwaysMakeRunsEveryRecipe ==
    (/\ mainPc = "returned"
     /\ result = "True"
     /\ options.always_make
     /\ ~options.dry_run)
    => \A t \in Targets : registry[t].recipe # "none" => t \in executed

\* ------------------------------------------------- claims on the graph builder
\* t is on a dependency cycle of two or more targets / depends on itself.
OnCycle(t) == \E d \in DependenciesOf(t) \ {t} : t \in Closure({d})
SelfDependent(t) == t \in DependenciesOf(t)

GraphWalked == mainPc \notin {"start", "graph"} /\ targets # <<>>

NothingScheduled ==
    /\ queue = <<>>
    /\ unfinished_tasks = 0
    /\ scheduled = {}
    /\ \A t \in Targets : enq[t] = 0
    /\ \A w \in Workers : wpc[w] = "idle"
    /\ executed = {}

\* The targets of the cycle the walk ran into: the call chain from the
\* re-entered target on.
DetectedCycle ==
    LET at == CHOOSE i \in 1..Len(errInfo.chain) : errInfo.chain[i] = errInfo.target
    IN  SubSeq(errInfo.chain, at, Len(errInfo.chain))

IsCycle(c) ==
    /\ Len(c) >= 2
    /\ \A i \in 1..Len(c) - 1 : c[i + 1] \in DependenciesOf(c[i])
    /\ c[1] \in DependenciesOf(c[Len(c)])

\* C8 as stated: whenever a dependency cycle of two or more targets is
\* reachable from the roots,
\* build_dependency_graph raises the cyclic-dependency error, which names
\* every target of the cycle, and nothing has been scheduled.
C8_CycleRaisesCyclicError ==
    (GraphWalked /\ \E t \in Reachable : OnCycle(t))
    => /\ mainPc = "raised"
       /\ result = "cyclic"
       /\ SeqToSet(DetectedCycle) \subseteq errInfo.named
       /\ NothingScheduled

\* C8 amended: whenever a dependency cycle is reachable from the roots,
\* build() raises with nothing scheduled.  The error is the cyclic-dependency
\* error, naming every target of a cycle of the graph, unless the walk first
\* resolves a target that depends on itself: then it is the self-dependency
\* error of that target.  Without any self-dependent target reachable the
\* error is always the cyclic-dependency error.
C8_CycleRaises ==
    (GraphWalked /\ \E t \in Reachable : OnCycle(t) \/ SelfDependent(t))
    => /\ mainPc = "raised"
       /\ NothingScheduled
       /\ result \in {"cyclic", "self"}
       /\ result = "self" => SelfDependent(errInfo.target)
       /\ (\A t \in Reachable : ~SelfDependent(t)) => result = "cyclic"
       /\ result = "cyclic" =>
             /\ IsCycle(DetectedCycle)
             /\ SeqToSet(DetectedCycle) \subseteq errInfo.named

C8_Witness ==
    /\ mainPc = "raised"
    /\ result = "cyclic"
    /\ Len(DetectedCycle) = 3
    /\ Len(errInfo.chain) = 3

\* ----------------------------------------------------- claims on should_build
ExistingTimes(files) == {fs[f.v].mtime : f \in {g \in SeqToSet(files) : IsPath(g) /\ fs[g.v].mtime > 0}}

OwnTimes(t) == ExistingTimes(registry[t].name)

\* The files of the dependencies of t: the outputs of its Target
\* dependencies and its path references.
DependencyFiles(t) ==
    UNION {IF IsTarget(registry[t].dependencies[i])
           THEN SeqToSet(registry[registry[t].dependencies[i].v].name)
           ELSE {registry[t].dependencies[i]} : i \in 1..Len(registry[t].dependencies)}

DepTimes(t) == {fs[f.v].mtime : f \in {g \in DependencyFiles(t) : IsPath(g) /\ fs[g.v].mtime > 0}}

HasPhonyDependency(t) == \E d \in TargetDeps(t) : registry[d].phony

IsExistingDirectory(t) ==
    /\ Len(registry[t].name) = 1
    /\ IsPath(registry[t].name[1])
    /\ fs[registry[t].name[1].v].mtime > 0
    /\ fs[registry[t].name[1].v].dir

SetMax(S) == CHOOSE x \in S : \A y \in S : x >= y

\* The case of C9: should_build() was called on a non-phony target that is not
\* an existing directory, has an existing output, an existing dependency file
\* and no phony dependency.
TimestampCase(t) ==
    /\ observed.self = t
    /\ ~registry[t].phony
    /\ ~IsExistingDirectory(t)
    /\ OwnTimes(t) # {}
    /\ DepTimes(t) # {}
    /\ ~HasPhonyDependency(t)

\* C9 as stated: should_build() is true iff the latest timestamp of the
\* target's existing outputs is <= the latest timestamp of its dependencies.
C9_LatestOutputDecides ==
    \A t \in Targets :
        TimestampCase(t) => (observed.value <=> SetMax(OwnTimes(t)) <= SetMax(DepTimes(t)))

\* C9 amended: should_build() is true iff the earliest timestamp of the
\* target's existing outputs is <= the latest timestamp of its dependencies.
C9_EarliestOutputDecides ==
    \A t \in Targets :
        TimestampCase(t) => (observed.value <=> SetMin(OwnTimes(t)) <= SetMax(DepTimes(t)))

C9_Witness ==
    \E t \in Targets :
        /\ TimestampCase(t)
        /\ Len(registry[t].name) = 2
        /\ SetMin(OwnTimes(t)) <= SetMax(DepTimes(t))
        /\ SetMax(DepTimes(t)) < SetMax(OwnTimes(t))
        /\ observed.value

\* C10 as stated: should_build() of a non-phony target with a phony Target
\* dependency is true whatever the target's name and the files on disk.
C10_PhonyDependencyForces ==
    \A t \in Targets :
        (observed.self = t /\ ~registry[t].phony /\ HasPhonyDependency(t))
        => observed.value

\* C10 amended: should_build() of a non-phony target with a phony Target
\* dependency is true, except that it is false when the target's single
\* output path is an existing directory.
C10_PhonyDependencyForcesUnlessDirectory ==
    \A t \in Targets :
        (observed.self = t /\ ~registry[t].phony /\ HasPhonyDependency(t))
        => (observed.value <=> ~IsExistingDirectory(t))

C10_Witness ==
    \E t \in Targets :
        /\ observed.self = t
        /\ ~registry[t].phony
        /\ HasPhonyDependency(t)
        /\ OwnTimes(t) # {}
        /\ DepTimes(t) # {}
        /\ SetMin(OwnTimes(t)) > SetMax(DepTimes(t))
        /\ observed.value

\* C11: should_build() is true, whatever the timestamps of the dependencies,
\* for a phony target and for a non-phony target none of whose output paths
\* exists.
C11_PhonyOrMissingOutputBuilds ==
    \A t \in Targets :
        (observed.self = t /\ (registry[t].phony \/ OwnTimes(t) = {}))
        => observed.value

C11_Witness ==
    \E t \in Targets :
        /\ observed.self = t
        /\ ~registry[t].phony
        /\ Len(registry[t].name) = 2
        /\ OwnTimes(t) = {}
        /\ DepTimes(t) # {}
        /\ ~HasPhonyDependency(t)
        /\ observed.value

\* ------------------------------------------- claims on what build() executes
\* t is dequeued / its recipe is started by the step.
Dequeued(t) == deq'[t] = deq[t] + 1
Started(t) == t \in executed' /\ t \notin executed

\* Every existing output of the non-phony target t is strictly newer than
\* every existing file of its dependencies, none of which is a phony target.
UpToDate(t) ==
    /\ ~registry[t].phony
    /\ OwnTimes(t) # {}
    /\ ~HasPhonyDependency(t)
    /\ \A o \in OwnTimes(t) : \A d \in DepTimes(t) : o > d

\* No worker holds t any more.
Released(t) == \A w \in Workers : wt[w] # t

Dependents(t) == {graph[t][i] : i \in 1..Len(graph[t])}

FileTargetsOnly == \A t \in Targets : ~registry[t].phony /\ registry[t].recipe # "none"

RECURSIVE MatchedRoots(_)
MatchedRoots(names) ==
    IF names = <<>> THEN <<>>
    ELSE LET m == name_match(Head(names), registry)
         IN  IF m = 0 THEN MatchedRoots(Tail(names))
             ELSE <<TargetRef(m)>> \o MatchedRoots(Tail(names))

Selected == mainPc \notin {"start", "graph"}

\* C14: for a non-empty request (always_make off), when no name matches
\* build() returns False with nothing scheduled; otherwise no error is raised
\* and the roots are the Targets of the matching names, the others dropped.
C14_RequestedNamesBecomeRoots ==
    (Selected /\ options.targets # <<>> /\ ~options.always_make) =>
        IF MatchedRoots(options.targets) = <<>>
        THEN mainPc = "returned" /\ result = "False" /\ NothingScheduled
        ELSE /\ mainPc = "spawn"
             /\ result = "none"
             /\ targets = MatchedRoots(options.targets)

\* C15: build() without requested targets and without always_make takes the
\* first registered target as its only root: only targets reachable from it
\* are put on the queue, dequeued, processed or executed.
C15_DefaultRootIsFirstTarget ==
    (Selected /\ options.targets = <<>> /\ ~options.always_make) =>
        /\ targets = <<TargetRef(1)>>
        /\ \A t \in Targets :
              (enq[t] > 0 \/ deq[t] > 0 \/ t \in processed \/ t \in executed
                 \/ t \in scheduled \/ t \in DOMAIN in_degree)
              => t \in Closure({1})

C15_Witness ==
    /\ options.targets = <<>>
    /\ ~options.always_make
    /\ mainPc = "returned"
    /\ result = "True"
    /\ processed = Closure({1})
    /\ Cardinality(processed) >= 2
    /\ Closure({1}) # Targets
    /\ executed # {}

\* The target is stale as the files are now.
Stale(t) ==
    \/ registry[t].phony
    \/ /\ ~IsExistingDirectory(t)
       /\ \/ OwnTimes(t) = {}
          \/ HasPhonyDependency(t)
          \/ DepTimes(t) # {} /\ SetMin(OwnTimes(t)) <= SetMax(DepTimes(t))

\* C16: with dry_run no recipe is executed and nothing fails; the command of
\* a dequeued target is displayed exactly when the target has a recipe and is
\* stale; targets are dequeued in dependency order; and unless build() has
\* returned True with every reachable target processed, some thread has a
\* step to take.
C16_DryRunExecutesNothing ==
    options.dry_run =>
        /\ executed = {}
        /\ ~fatal_error_event
        /\ \A t \in Targets :
              /\ outcome[t] \in {"none", "shown"}
              /\ deq[t] > 0 =>
                    /\ outcome[t] = "shown" <=> (registry[t].recipe # "none" /\ Stale(t))
                    /\ \A d \in TargetDeps(t) : d \in processed
        /\ should_be_built > 0 =>
              \/ mainPc = "returned" /\ result = "True" /\ processed = Reachable
              \/ ENABLED Next

C16_Witness ==
    /\ options.dry_run
    /\ options.jobs > 1
    /\ mainPc = "returned"
    /\ result = "True"
    /\ Cardinality(processed) >= 3
    /\ \E t \in processed : outcome[t] = "shown"
    /\ \E t \in processed : outcome[t] = "none" /\ registry[t].recipe # "none"

\* ------------------------------------------------------- claims on Recipe
\* The step is a call on a Recipe; the object it was called on.
Called(op) == last'.n # last.n /\ last'.op = op
Callee == Object(last'.self)

BuilderOps == {"add", "add_include", "add_libinclude", "add_link", "add_output"}

\* The shape of a Recipe and its argument payload.
Shape(r) ==
    CASE r.type \in {"DefaultRecipe", "ListRecipe"} -> "vector"
      [] r.type = "RawRecipe" -> "raw"
      [] r.type = "CallableRecipe" -> "callable"
      [] OTHER -> "none"
Payload(r, heap) == IF r.input.k = "list" THEN heap[r.input.v] ELSE <<r.input>>

\* C17: run() of a callable recipe configured with another directory than
\* the current one leaves the process in the directory it was in, whether the
\* action returns or raises.
C17_RunRestoresDirectory ==
    [][(Called("run") /\ Shape(Callee) = "callable" /\ Callee.cwd # cwd) => cwd' = cwd]_vars

\* The text a builder method puts in front of each argument.
Prefix(op) ==
    CASE op = "add" -> ""
      [] op = "add_include" -> "-I"
      [] op = "add_libinclude" -> "-L"
      [] op = "add_link" -> "-l"
      [] op = "add_output" -> "-o"

Expected(op, args) == [i \in 1..Len(args) |-> [pre |-> Prefix(op), v |-> args[i].v]]

\* C18: a builder method called on a raw or callable recipe raises and
\* changes nothing; called on a vector recipe it returns the recipe and the
\* payload is the old payload followed by the prefixed arguments in the order
\* given, every other list and both Recipe objects staying as they were.
C18_BuilderAppendsOrRaises ==
    [][\A op \in BuilderOps :
          Called(op) =>
              /\ original' = original /\ copy' = copy /\ cwd' = cwd
              /\ IF Shape(Callee) = "vector"
                 THEN /\ last'.raised = "none"
                      /\ last'.returned = last'.self
                      /\ \E args \in ArgLists \cup {<<Path(1)>>, <<Str(2)>>} :
                            Payload(Callee, lists') = Payload(Callee, lists) \o Expected(op, args)
                      /\ \A a \in DOMAIN lists : a # Callee.input.v => lists'[a] = lists[a]
                      /\ DOMAIN lists' = DOMAIN lists
                 ELSE /\ last'.raised = "RuntimeError"
                      /\ lists' = lists]_vars

C18_Witness ==
    /\ Shape(original) = "vector"
    /\ Len(Payload(original, lists)) >= 4
    /\ \E i \in 2..Len(Payload(original, lists)) : Payload(original, lists)[i].pre = "-o"
    /\ Payload(original, lists)[Len(Payload(original, lists))].pre = ""
    /\ last.op = "add"
    /\ last.raised = "none"

\* C19: clone() returns a recipe of the shape of the original, with an equal
\* payload and the same configured directory; and a builder method called on
\* one of the two leaves the payload of the other as it was.
C19_CloneIsEqualAndIndependent ==
    [][/\ (Called("clone") /\ last'.raised = "none") =>
             /\ Shape(copy') = Shape(original)
             /\ Payload(copy', lists') = Payload(original, lists)
             /\ copy'.cwd = original.cwd
       /\ \A op \in BuilderOps :
             (Called(op) /\ copy.type # "none") =>
                 IF last'.self = "copy"
                 THEN Payload(original, lists') = Payload(original, lists)
                 ELSE Payload(copy, lists') = Payload(copy, lists)]_vars

\* The name of a registered target has the shape of its kind.
NameShape(t) ==
    /\ Len(t.name) >= 1
    /\ IF t.phony
       THEN Len(t.name) = 1 /\ t.name[1].k = "str"
       ELSE \A i \in 1..Len(t.name) : t.name[i].k = "path"

\* C20: a Target construction either raises and leaves the registry as it
\* was, or appends one target whose name is a single str if it is phony and
\* a non-empty sequence of Paths if it is not.
C20_ConstructionEnforcesNameShape ==
    [][Called("Target") =>
          IF last'.raised # "none"
          THEN registry' = registry
          ELSE /\ Len(registry') = Len(registry) + 1
               /\ SubSeq(registry', 1, Len(registry)) = registry
               /\ NameShape(registry'[Len(registry')])]_vars

\* C24: the cyclic-dependency error message lists the targets of the walk's
\* stack in the order in which they were visited, root first, and then the
\* re-entered target.
C24_MessageInVisitingOrder ==
    (mainPc = "raised" /\ result = "cyclic")
    => errInfo.message = Append(errInfo.chain, errInfo.target)

\* ------------------------------------------- claims on dependency resolution
\* The targets whose name contains the path p, and the first of them in
\* registry order (0: none).
Owners(p) == {i \in Targets : \E j \in 1..Len(registry[i].name) : registry[i].name[j] = p}
FirstOwner(p) ==
    IF Owners(p) = {} THEN 0
    ELSE CHOOSE i \in Owners(p) : \A j \in Owners(p) : i <= j

DependsOnOwnOutput(t) ==
    \E i \in 1..Len(registry[t].dependencies) :
        /\ IsPath(registry[t].dependencies[i])
        /\ FirstOwner(registry[t].dependencies[i]) = t

Resolved(d) ==
    IF IsPath(d) /\ FirstOwner(d) # 0 THEN TargetRef(FirstOwner(d)) ELSE d

\* C21: T.resolve_dependencies() raises the self-dependency error and leaves
\* every dependency list as it was when the first target that has one of T's
\* path dependencies in its name is T; otherwise the list of T keeps its
\* length and order, each path that some target has in its name being
\* replaced by the first such target, every other entry and every other
\* target staying as it was; a second call on T changes nothing.
C21_ResolveReplacesByFirstOwner ==
    [][\A t \in Targets :
          (Called("resolve") /\ last'.self = ToString(t)) =>
              /\ \A u \in Targets \ {t} : registry'[u] = registry[u]
              /\ registry'[t].name = registry[t].name
              /\ IF DependsOnOwnOutput(t)
                 THEN last'.raised = "RuntimeError" /\ registry' = registry
                 ELSE /\ last'.raised = "none"
                      /\ Len(registry'[t].dependencies) = Len(registry[t].dependencies)
                      /\ \A i \in 1..Len(registry[t].dependencies) :
                            registry'[t].dependencies[i] = Resolved(registry[t].dependencies[i])
              /\ (last.op = "resolve" /\ last.self = ToString(t)) => registry' = registry]_vars

\* The first target, after a call that raised, has been resolved with its
\* path to the second target's output replaced and the path of no target kept.
C21_Witness ==
    /\ last.n >= 2
    /\ last.op = "resolve"
    /\ last.raised = "none"
    /\ last.self = ToString(1)
    /\ registry[1].dependencies = <<TargetRef(2), Path(4)>>
    /\ registry[2].dependencies = <<Path(2)>>

\* ------------------------------------------------ claims on the graph walk
GraphBuilt == last.op = "build_dependency_graph"

Acyclic == \A t \in Reachable : ~OnCycle(t) /\ ~SelfDependent(t)

\* How many entries of the sequence q are x.
Occurrences(q, x) == Cardinality({i \in 1..Len(q) : q[i] = x})

TargetEntries(t) ==
    {i \in 1..Len(registry[t].dependencies) : IsTarget(registry[t].dependencies[i])}

\* C22: after build_dependency_graph(roots) on targets without a reachable
\* cycle nothing is raised; the keys of in_degree are the targets reachable
\* from the roots and the keys of the dependents-map are among them; every
\* reachable target is resolved; in_degree[t] is the number of Target entries
\* of t's resolved dependency list; the dependents-map holds t under d as
\* many times as d is an entry of t's list (which is what one walk of t
\* adds), and holds no target that is not reachable; a path of no target
\* counts for nothing.
C22_GraphOfReachableTargets ==
    (GraphBuilt /\ Acyclic) =>
        /\ last.raised = "none"
        /\ DOMAIN in_degree = Reachable
        /\ \A d \in Targets : graph[d] # <<>> => d \in Reachable
        /\ \A t \in Reachable :
              /\ \A i \in 1..Len(registry[t].dependencies) :
                    IsPath(registry[t].dependencies[i]) =>
                        Owners(registry[t].dependencies[i]) = {}
              /\ in_degree[t] = Cardinality(TargetEntries(t))
              /\ \A d \in Targets :
                    Occurrences(graph[d], t) = Occurrences(registry[t].dependencies, TargetRef(d))
        /\ \A t \in Targets \ Reachable : \A d \in Targets : Occurrences(graph[d], t) = 0

\* A diamond walked from roots that list a target twice: the first target
\* depends on the second and the third and on a path of no target, the second
\* on the third.
C22_Witness ==
    /\ GraphBuilt
    /\ last.raised = "none"
    /\ targets = <<TargetRef(1), TargetRef(1)>>
    /\ registry[1].dependencies = <<TargetRef(2), TargetRef(3)>>
    /\ registry[2].dependencies = <<TargetRef(3), Path(4)>>
    /\ in_degree[1] = 2
    /\ graph[3] = <<2, 1>>

\* ------------------------------------------------- claims on the workers
\* C23: as long as the build is not cancelled, a worker has returned from
\* worker() only if every target of the graph has been processed.
C23_WorkersStayUntilAllProcessed ==
    \A w \in Workers :
        (wpc[w] = "done" /\ ~fatal_error_event) => processed = DOMAIN in_degree

\* The targets that depend on t, directly or through other targets.
TransitiveDependents(t) == {u \in Targets \ {t} : t \in Closure({u})}

\* C25: with keep_going off, a target whose recipe failed is never counted as
\* processed and decrements no in-degree, and no target that depends on it,
\* directly or not, is ever put on the queue, dequeued or executed.
C25_FailureBlocksDependents ==
    \A t \in Targets :
        (~options.keep_going /\ outcome[t] \in {"exit", "fault"}) =>
            /\ t \notin processed
            /\ \A u \in Targets : <<t, u>> \notin notified
            /\ \A u \in TransitiveDependents(t) :
                  /\ u \in DOMAIN in_degree => in_degree[u] > 0
                  /\ u \notin scheduled
                  /\ enq[u] = 0
                  /\ deq[u] = 0
                  /\ u \notin executed

\* build() has returned after the failure of a target that has two
\* dependents in the graph, while the recipe of another target succeeded.
C25_Witness ==
    /\ mainPc = "returned"
    /\ result = "False"
    /\ options.jobs = 2
    /\ \E t \in Targets :
          /\ outcome[t] = "exit"
          /\ ~options.keep_going
          /\ Cardinality(TransitiveDependents(t) \cap DOMAIN in_degree) >= 2
          /\ \E u \in Targets \ {t} : outcome[u] = "ok"

\* C26: no worker calls task_done() when no task is unfinished: no thread is
\* ended by the ValueError of task_done(), and the count never goes below 0.
C26_TaskDoneNeverExceedsPut ==
    /\ unfinished_tasks >= 0
    /\ \A w \in Workers : wpc[w] # "crashed"

\* C27: with more than one job and in-process recipes configured with
\* differing directories, when the first call of build() returns without any
\* recipe having failed, the process is in the directory it was called in.
C27_BuildRestoresDirectory ==
    (/\ mainPc = "returned"
     /\ prev = "none"
     /\ options.jobs > 1
     /\ \A t \in Targets : outcome[t] \notin {"exit", "fault"})
    => cwd = StartDir

====
